---- MODULE Spec2Model ----
(***************************************************************************)
(* A model of scripts/make-logo-transparent.py: make_transparent loads an  *)
(* image, converts it to RGBA, makes every pixel whose red, green and blue *)
(* all reach the threshold transparent, saves the result as PNG and prints *)
(* a message; __main__ calls it on docs/public/logo.png in place.          *)
(***************************************************************************)
EXTENDS Integers, Sequences, FiniteSets, TLC

VARIABLES
    fs,           \* the file system: path -> file content
    input_path,   \* arguments of the current call of make_transparent
    output_path,
    threshold,
    pc,           \* position of the process in the script
    img,          \* the Image object of line 15 (pixels = img.load() aliases its data)
    width,
    height,
    x,            \* loop variables of lines 22-23
    y,
    stdout,       \* the lines printed so far
    error,        \* the uncaught exception that ended the process, or "none"
    run,          \* number of the current invocation of the script
    fs0,          \* history: the file system when the current call started
    loaded,       \* history: the RGBA buffer as it was after line 18
    visits,       \* history: how often the body of the loop ran at each position
    iters         \* history: how often the body of the loop ran in this call

vars == <<fs, input_path, output_path, threshold, pc, img, width, height, x, y,
          stdout, error, run, fs0, loaded, visits, iters>>

(* ------------------------------ bounds --------------------------------- *)

MaxPixels == 4
MaxRuns == 2

(* ----------------------------- constants ------------------------------- *)

DefaultThreshold == 240
Opaque == 255
Transparent == 0
ChannelMax == 255

LogoPath == "docs/public/logo.png"
OtherPath == "out.png"
Paths == {LogoPath, OtherPath}

\* The lines of output, as the texts and values they are formatted from.
ConvertedMsg(src, dst) == <<"Converted", src, "to transparent PNG:", dst>>
RemovedMsg == <<"Logo background removed successfully!">>

(* ------------------------------- files --------------------------------- *)

Missing == [kind |-> "missing"]
Garbage == [kind |-> "garbage"]
NoImage == [kind |-> "none"]

Positions(w, h) == (0 .. w - 1) \X (0 .. h - 1)

ImageFile(mode, w, h, data) ==
    [kind |-> "image", mode |-> mode, size |-> <<w, h>>, data |-> data]

Decodable(file) == file.kind = "image"

\* A conversion that synthesizes a transparent alpha channel.
ConvertAlphaZero(file) ==
    [kind |-> "image", mode |-> "RGBA", size |-> file.size,
     data |-> [p \in DOMAIN file.data |->
                 IF file.mode = "RGBA"
                 THEN file.data[p]
                 ELSE <<file.data[p][1], file.data[p][2], file.data[p][3], Transparent>>]]

\* Image.convert('RGBA'): an RGB pixel gets alpha 255, an RGBA pixel is kept.
Convert(file) ==
    [kind |-> "image", mode |-> "RGBA", size |-> file.size,
     data |-> [p \in DOMAIN file.data |->
                 IF file.mode = "RGBA"
                 THEN file.data[p]
                 ELSE <<file.data[p][1], file.data[p][2], file.data[p][3], Opaque>>]]

\* An encoder that writes the rows as columns.
EncodeSwapped(image) == ImageFile("RGBA", image.size[2], image.size[1], image.data)

\* img.save(output_path, 'PNG'): the file holds the buffer, in mode RGBA.
EncodePNG(image) == ImageFile("RGBA", image.size[1], image.size[2], image.data)

(* --------------------------- the pixel test ---------------------------- *)

IsLightStrict(r, g, b, t) == r > t /\ g > t /\ b > t

\* line 27
IsLight(r, g, b, t) == r >= t /\ g >= t /\ b >= t

SetKeep(r, g, b, a) == <<r, g, b, a>>

SetWhite(r, g, b, a) == <<ChannelMax, ChannelMax, ChannelMax, Transparent>>

\* line 28
SetTransparent(r, g, b, a) == <<r, g, b, Transparent>>

\* A body that writes to [x + 1, y] instead of [x, y].
BodyShifted(px, pos, t) ==
    LET r == px[pos][1]
        g == px[pos][2]
        b == px[pos][3]
        a == px[pos][4]
        q == <<pos[1] + 1, pos[2]>>
    IN  IF IsLight(r, g, b, t) /\ q \in DOMAIN px
        THEN [px EXCEPT ![q] = SetTransparent(r, g, b, a)]
        ELSE px

\* A body that writes to [y, x] instead of [x, y].
BodyTransposed(px, pos, t) ==
    LET r == px[pos][1]
        g == px[pos][2]
        b == px[pos][3]
        a == px[pos][4]
        q == <<pos[2], pos[1]>>
    IN  IF IsLight(r, g, b, t) /\ q \in DOMAIN px
        THEN [px EXCEPT ![q] = SetTransparent(r, g, b, a)]
        ELSE px

\* lines 24-28: one execution of the loop body at position pos
Body(px, pos, t) ==
    LET r == px[pos][1]
        g == px[pos][2]
        b == px[pos][3]
        a == px[pos][4]
    IN  IF IsLight(r, g, b, t)
        THEN [px EXCEPT ![pos] = SetTransparent(r, g, b, a)]
        ELSE px

(* ------------------------------ inputs --------------------------------- *)

Thresholds == {0, 1, DefaultThreshold, ChannelMax}

Sizes == {s \in (0 .. MaxPixels) \X (0 .. MaxPixels) : s[1] * s[2] <= MaxPixels}

ValidPixel(p) == \A i \in DOMAIN p : p[i] \in 0 .. ChannelMax

\* Families of pixels around the threshold t; an input image draws its pixels
\* from one family.
Palettes(t) ==
    { [mode |-> "RGBA",
       pixels |-> {<<ChannelMax, ChannelMax, ChannelMax, Opaque>>, <<0, 0, 0, Opaque>>}],
      [mode |-> "RGBA",
       pixels |-> {<<t, t, t, Opaque>>, <<t - 1, t - 1, t - 1, Opaque>>}],
      [mode |-> "RGBA",
       pixels |-> {<<t - 1, t, t, Opaque>>, <<t, t - 1, t, Opaque>>}],
      [mode |-> "RGBA",
       pixels |-> {<<t, t, t - 1, Opaque>>, <<ChannelMax, ChannelMax, ChannelMax, Transparent>>}],
      [mode |-> "RGBA",
       pixels |-> {<<t, t, t, 128>>, <<0, 0, 0, Transparent>>}],
      [mode |-> "RGB",
       pixels |-> {<<ChannelMax, ChannelMax, ChannelMax>>, <<t - 1, t, t>>}],
      [mode |-> "RGB",
       pixels |-> {<<t, t, t>>, <<0, 0, 0>>}] }

\* The 2x2 image of the end-to-end example.
ExampleImage ==
    ImageFile("RGBA", 2, 2,
              [p \in Positions(2, 2) |->
                 CASE p = <<0, 0>> -> <<255, 255, 255, 255>>
                   [] p = <<1, 0>> -> <<0, 0, 0, 255>>
                   [] p = <<0, 1>> -> <<240, 240, 240, 255>>
                   [] p = <<1, 1>> -> <<239, 239, 239, 255>>])

Images(t) ==
    UNION { UNION { { ImageFile(pal.mode, s[1], s[2], d) :
                        d \in [Positions(s[1], s[2]) -> {p \in pal.pixels : ValidPixel(p)}] } :
                    s \in Sizes } :
            pal \in Palettes(t) }
    \cup {ExampleImage}

InputFiles(t) == {Missing, Garbage} \cup Images(t)

\* What the other path holds before the script runs.
OldFile == ImageFile("RGBA", 1, 1, [p \in Positions(1, 1) |-> <<7, 7, 7, 7>>])

(* ------------------------------ actions -------------------------------- *)

NoVisits == [p \in Positions(0, 0) |-> 0]

Init ==
    /\ threshold \in Thresholds
    /\ input_path = LogoPath
    /\ output_path \in Paths
    /\ \E f \in InputFiles(threshold) :
          fs = [p \in Paths |-> IF p = LogoPath THEN f ELSE OldFile]
    /\ fs0 = fs
    /\ pc = "open"
    /\ img = NoImage
    /\ width = 0
    /\ height = 0
    /\ x = 0
    /\ y = 0
    /\ stdout = <<>>
    /\ error = "none"
    /\ run = 1
    /\ loaded = NoImage
    /\ visits = NoVisits
    /\ iters = 0

\* An open that goes on with an empty image when the file cannot be loaded.
OpenSwallow ==
    /\ pc = "open"
    /\ img' = IF Decodable(fs[input_path])
              THEN Convert(fs[input_path])
              ELSE ImageFile("RGBA", 0, 0, NoVisits)
    /\ width' = img'.size[1]
    /\ height' = img'.size[2]
    /\ loaded' = img'
    /\ visits' = [p \in Positions(width', height') |-> 0]
    /\ y' = 0
    /\ pc' = "for_y"
    /\ UNCHANGED <<fs, input_path, output_path, threshold, x, stdout, error, run,
                   fs0, iters>>

\* lines 15-19: open, convert, load, read the size
Open ==
    /\ pc = "open"
    /\ IF Decodable(fs[input_path])
       THEN /\ img' = Convert(fs[input_path])
            /\ width' = img'.size[1]
            /\ height' = img'.size[2]
            /\ loaded' = img'
            /\ visits' = [p \in Positions(width', height') |-> 0]
            /\ y' = 0
            /\ pc' = "for_y"
            /\ UNCHANGED error
       ELSE /\ pc' = "failed"
            /\ error' = IF fs[input_path] = Missing THEN "FileError" ELSE "DecodeError"
            /\ UNCHANGED <<img, width, height, loaded, visits, y>>
    /\ UNCHANGED <<fs, input_path, output_path, threshold, x, stdout, run, fs0, iters>>

\* An outer loop over range(height - 1).
ForYSkipLast ==
    /\ pc = "for_y"
    /\ IF y < height - 1
       THEN /\ x' = 0
            /\ pc' = "for_x"
       ELSE /\ pc' = "save"
            /\ UNCHANGED x
    /\ UNCHANGED <<fs, input_path, output_path, threshold, img, width, height, y,
                   stdout, error, run, fs0, loaded, visits, iters>>

\* line 22: for y in range(height)
ForY ==
    /\ pc = "for_y"
    /\ IF y < height
       THEN /\ x' = 0
            /\ pc' = "for_x"
       ELSE /\ pc' = "save"
            /\ UNCHANGED x
    /\ UNCHANGED <<fs, input_path, output_path, threshold, img, width, height, y,
                   stdout, error, run, fs0, loaded, visits, iters>>

\* lines 23-28: for x in range(width), with the body
ForX ==
    /\ pc = "for_x"
    /\ IF x < width
       THEN /\ img' = [img EXCEPT !.data = Body(img.data, <<x, y>>, threshold)]
            /\ x' = x + 1
            /\ visits' = [visits EXCEPT ![<<x, y>>] = @ + 1]
            /\ iters' = iters + 1
            /\ UNCHANGED <<y, pc>>
       ELSE /\ y' = y + 1
            /\ pc' = "for_y"
            /\ UNCHANGED <<img, x, visits, iters>>
    /\ UNCHANGED <<fs, input_path, output_path, threshold, width, height,
                   stdout, error, run, fs0, loaded>>

\* A save that sits inside the loop.
SaveInLoop ==
    /\ pc \in {"for_x", "save"}
    /\ fs' = [fs EXCEPT ![output_path] = EncodePNG(img)]
    /\ pc' = "print"
    /\ UNCHANGED <<input_path, output_path, threshold, img, width, height, x, y,
                   stdout, error, run, fs0, loaded, visits, iters>>

\* line 31: img.save(output_path, 'PNG'); the write may fail, leaving the file
\* as it was or cut short
Save ==
    /\ pc = "save"
    /\ \/ /\ fs' = [fs EXCEPT ![output_path] = EncodePNG(img)]
          /\ pc' = "print"
          /\ UNCHANGED error
       \/ /\ fs' \in {fs, [fs EXCEPT ![output_path] = Garbage]}
          /\ pc' = "failed"
          /\ error' = "WriteError"
    /\ UNCHANGED <<input_path, output_path, threshold, img, width, height, x, y,
                   stdout, run, fs0, loaded, visits, iters>>

\* line 32
PrintConverted ==
    /\ pc = "print"
    /\ stdout' = Append(stdout, ConvertedMsg(input_path, output_path))
    /\ pc' = "return"
    /\ UNCHANGED <<fs, input_path, output_path, threshold, img, width, height, x, y,
                   error, run, fs0, loaded, visits, iters>>

\* line 41
PrintRemoved ==
    /\ pc = "return"
    /\ stdout' = Append(stdout, RemovedMsg)
    /\ pc' = "done"
    /\ UNCHANGED <<fs, input_path, output_path, threshold, img, width, height, x, y,
                   error, run, fs0, loaded, visits, iters>>

\* lines 36-40, once more: the script is run again on the file it wrote, with
\* the same threshold
Invoke ==
    /\ pc = "done"
    /\ run < MaxRuns
    /\ run' = run + 1
    /\ input_path' = output_path
    /\ fs0' = fs
    /\ pc' = "open"
    /\ img' = NoImage
    /\ width' = 0
    /\ height' = 0
    /\ x' = 0
    /\ y' = 0
    /\ loaded' = NoImage
    /\ visits' = NoVisits
    /\ iters' = 0
    /\ UNCHANGED <<fs, output_path, threshold, stdout, error>>

\* The steps of one run of the script, which runs to completion or fails.
Step == Open \/ ForY \/ ForX \/ Save \/ PrintConverted \/ PrintRemoved

Next == Open \/ ForY \/ ForX \/ Save \/ PrintConverted \/ PrintRemoved \/ Invoke

Spec == Init /\ [][Next]_vars

\* A started run is single-threaded and blocking: it keeps taking steps.
FairSpec == Spec /\ WF_vars(Step)

(* --------------------------- claim vocabulary -------------------------- *)

\* The save of the current call has completed without error.
Written == pc \in {"print", "return", "done"}

\* The loop of the current call is over.
PassOver == Written \/ pc = "save" \/ (pc = "failed" /\ error = "WriteError")

InLoop == pc \in {"for_y", "for_x"}

Source == fs0[input_path]

Out == fs[output_path]

\* The alpha of an input pixel, 255 when the source has no alpha channel.
InputAlpha(file, p) == IF file.mode = "RGBA" THEN file.data[p][4] ELSE 255

\* What the whole pass is to make of a buffer, stated pixel by pixel.
Expected(data, t) ==
    [p \in DOMAIN data |->
        IF data[p][1] >= t /\ data[p][2] >= t /\ data[p][3] >= t
        THEN <<data[p][1], data[p][2], data[p][3], 0>>
        ELSE data[p]]

(* ------------------------------- claims -------------------------------- *)

\* C1: once the image is written, every pixel whose loaded red, green and blue
\* all reach the threshold has alpha 0 in the output, whatever its alpha was.
C1_LightBecomesTransparent ==
    Written =>
        \A p \in DOMAIN loaded.data :
            (/\ loaded.data[p][1] >= threshold
             /\ loaded.data[p][2] >= threshold
             /\ loaded.data[p][3] >= threshold) => Out.data[p][4] = 0

C1_Witness ==
    /\ Written
    /\ \E p \in DOMAIN loaded.data :
          /\ loaded.data[p] = <<threshold, threshold, threshold, 128>>
          /\ Out.data[p][4] = 0

\* C2: once the image is written, every pixel with red, green or blue below
\* the threshold is in the output what it was in the input file, its alpha
\* being 255 when the input file had no alpha channel.
C2_DarkUnchanged ==
    Written =>
        \A p \in DOMAIN Source.data :
            (\/ Source.data[p][1] < threshold
             \/ Source.data[p][2] < threshold
             \/ Source.data[p][3] < threshold) =>
                Out.data[p] = <<Source.data[p][1], Source.data[p][2], Source.data[p][3],
                                InputAlpha(Source, p)>>

C2_Witness ==
    /\ Written
    /\ Source.mode = "RGB"
    /\ \E p \in DOMAIN Source.data :
          /\ Source.data[p][1] < threshold
          /\ Source.data[p][2] >= threshold
          /\ Out.data[p][4] = 255

\* C3: a second run on the output of the first, with the same threshold,
\* writes a file identical to the one it read: same size, same pixels.
C3_Idempotent ==
    (run >= 2 /\ Written) => Out = Source

C3_Witness ==
    /\ run = 2
    /\ Written
    /\ Out = Source
    /\ \E p \in DOMAIN Out.data : Out.data[p][4] = 0 /\ Out.data[p][1] >= threshold
    /\ \E p \in DOMAIN Out.data : Out.data[p][4] = 255

\* C4: the comparison is inclusive: for a threshold t >= 1 an opaque pixel
\* (t, t, t) is written with alpha 0 and an opaque pixel (t-1, t, t) stays
\* opaque; the 2x2 example at threshold 240 gets alphas 0, 255, 0, 255 with
\* its red, green and blue unchanged.
C4_InclusiveBoundary ==
    Written =>
        /\ threshold >= 1 =>
              \A p \in DOMAIN loaded.data :
                 /\ loaded.data[p] = <<threshold, threshold, threshold, 255>>
                      => Out.data[p] = <<threshold, threshold, threshold, 0>>
                 /\ loaded.data[p] = <<threshold - 1, threshold, threshold, 255>>
                      => Out.data[p] = <<threshold - 1, threshold, threshold, 255>>
        /\ (Source = ExampleImage /\ threshold = 240) =>
              /\ Out.size = <<2, 2>>
              /\ Out.data[<<0, 0>>] = <<255, 255, 255, 0>>
              /\ Out.data[<<1, 0>>] = <<0, 0, 0, 255>>
              /\ Out.data[<<0, 1>>] = <<240, 240, 240, 0>>
              /\ Out.data[<<1, 1>>] = <<239, 239, 239, 255>>

C4_Witness ==
    /\ Written
    /\ run = 1
    /\ Source = ExampleImage
    /\ threshold = 240
    /\ Out.data[<<0, 1>>] = <<240, 240, 240, 0>>

\* C5: the written image has the width and height of the loaded one, and
\* holds exactly the pixel positions of the input.
C5_SameDimensions ==
    Written =>
        /\ Out.size = Source.size
        /\ Out.size = <<width, height>>
        /\ DOMAIN Out.data = DOMAIN Source.data
        /\ DOMAIN Out.data = Positions(Out.size[1], Out.size[2])

C5_Witness ==
    /\ Written
    /\ run = 1
    /\ Source.size = <<1, 3>>
    /\ Out.size = <<1, 3>>

\* C6: when the input file is missing or not an image, the run ends in an
\* error that nothing follows: every file is as it was when the call started
\* and no message is printed.
C6_LoadFailure ==
    ~Decodable(Source) =>
        /\ pc \in {"open", "failed"}
        /\ fs = fs0
        /\ stdout = <<>>
        /\ pc = "failed" => (error \in {"FileError", "DecodeError"} /\ ~ENABLED Next)

C6_Witness ==
    /\ pc = "failed"
    /\ error = "DecodeError"
    /\ output_path = OtherPath
    /\ Out = OldFile

\* The permutations of 1 .. n.
Perms ==
    [n \in 0 .. MaxPixels |->
        {s \in [1 .. n -> 1 .. n] : \A i, j \in 1 .. n : s[i] = s[j] => i = j}]

\* The positions of a w x h image in the order of lines 22-23.
RowMajor(w, h) == [i \in 1 .. w * h |-> <<(i - 1) % w, (i - 1) \div w>>]

\* Every order in which the positions of an image of size s can be visited.
Orders ==
    [s \in Sizes |->
        {[i \in 1 .. s[1] * s[2] |-> RowMajor(s[1], s[2])[q[i]]] : q \in Perms[s[1] * s[2]]}]

RECURSIVE ApplyInOrder(_, _, _, _)
\* The loop body applied at order[i], order[i+1], ..., in that order.
ApplyInOrder(px, order, i, t) ==
    IF i > Len(order) THEN px
    ELSE ApplyInOrder(Body(px, order[i], t), order, i + 1, t)

\* C7: when the loop is over, the buffer is what the loop body yields when
\* it is applied to the loaded buffer at the positions in any order.
C7_OrderIrrelevant ==
    pc = "save" =>
        \A order \in Orders[<<width, height>>] :
            ApplyInOrder(loaded.data, order, 1, threshold) = img.data

C7_Witness ==
    /\ pc = "save"
    /\ width = 2
    /\ height = 2
    /\ img.data[<<1, 0>>] # loaded.data[<<1, 0>>]
    /\ img.data[<<0, 1>>] = loaded.data[<<0, 1>>]

\* The positions the loop has been through when it stands at (x, y).
Done(p) ==
    \/ p[2] < y
    \/ pc = "for_x" /\ p[2] = y /\ p[1] < x

\* C8: the loop is one pass that ends: while it runs every position has been
\* visited once if the loop is past it and not at all otherwise, when it is
\* over every position of the w x h grid has been visited exactly once in
\* w * h iterations, and a run that has loaded its image reaches the save.
C8_SinglePass ==
    /\ [](InLoop =>
            /\ DOMAIN visits = Positions(width, height)
            /\ \A p \in DOMAIN visits : visits[p] = IF Done(p) THEN 1 ELSE 0
            /\ iters = Cardinality({p \in DOMAIN visits : Done(p)}))
    /\ [](PassOver =>
            /\ DOMAIN visits = Positions(width, height)
            /\ \A p \in DOMAIN visits : visits[p] = 1
            /\ iters = width * height)
    /\ [](InLoop => <>(PassOver))

C8_Witness ==
    /\ pc = "save"
    /\ width = 0
    /\ height = 3
    /\ iters = 0

\* C9: files change only in the save step, which comes after the whole pass
\* and writes the fully transformed input (or fails); the buffer written was
\* read from the input file as it was before the write, also when both paths
\* are the same; a message is printed only once the write has succeeded, the
\* message of make_transparent before that of the script.
C9_EventOrder ==
    [][/\ fs' # fs =>
            /\ pc = "save"
            /\ iters = width * height
            /\ \A p \in Paths : p # output_path => fs'[p] = fs[p]
            /\ fs = fs0
            /\ \/ fs'[output_path] = Garbage /\ pc' = "failed"
               \/ /\ pc' = "print"
                  /\ fs'[output_path] =
                        ImageFile("RGBA", Source.size[1], Source.size[2],
                                  Expected([p \in DOMAIN Source.data |->
                                              <<Source.data[p][1], Source.data[p][2],
                                                Source.data[p][3], InputAlpha(Source, p)>>],
                                           threshold))
       /\ stdout' # stdout =>
            /\ error = "none"
            /\ fs' = fs
            /\ fs[output_path] = ImageFile("RGBA", width, height, img.data)
            /\ \/ pc = "print" /\ stdout' = Append(stdout, ConvertedMsg(input_path, output_path))
               \/ pc = "return" /\ stdout' = Append(stdout, RemovedMsg)
            /\ Len(stdout') = 2 * (run - 1) + (IF pc = "print" THEN 1 ELSE 2)
      ]_vars

C9_Witness ==
    /\ pc = "done"
    /\ run = 1
    /\ input_path = output_path
    /\ Len(stdout) = 2
    /\ Out # Source
    /\ \E p \in DOMAIN Out.data : Out.data[p][4] = 255

\* C10: during and after the loop every pixel has its loaded red, green and
\* blue, and its alpha is its loaded alpha or 0; a pixel that was transparent
\* in the input is transparent in the output.
C10_PassInvariant ==
    /\ (InLoop \/ PassOver) =>
          \A p \in DOMAIN loaded.data :
             /\ img.data[p][1] = loaded.data[p][1]
             /\ img.data[p][2] = loaded.data[p][2]
             /\ img.data[p][3] = loaded.data[p][3]
             /\ img.data[p][4] \in {loaded.data[p][4], 0}
             /\ img.data[p][4] <= loaded.data[p][4]
    /\ Written =>
          \A p \in DOMAIN Source.data :
             InputAlpha(Source, p) = 0 => Out.data[p][4] = 0

C10_Witness ==
    /\ pc = "for_x"
    /\ \E p \in DOMAIN loaded.data : loaded.data[p][4] = 128 /\ img.data[p][4] = 0
    /\ \E p \in DOMAIN loaded.data : loaded.data[p][4] = 0 /\ loaded.data[p][1] = 0

====
